---- MODULE Spec2Model ----
(***************************************************************************)
(* Gesture arbitration of caress-your-music: the frame loop of             *)
(* GestureSpotifyController.run (src/main.py), the stability filter and    *)
(* handle_gestures it calls, and HandTracker's swipe detector and gate     *)
(* (src/hand_tracker.py).                                                  *)
(*                                                                         *)
(* Time is counted in ticks of 0.1 s: every threshold of the code is a     *)
(* whole number of ticks.  time.time() is a clock that never runs          *)
(* backwards; each call site of the code samples it on its own, so a step  *)
(* draws one sample per call site, each at or after the one before.        *)
(*                                                                         *)
(* The code reads a stored timestamp only in a difference                  *)
(* current_time - timestamp that it compares with a threshold.  The state  *)
(* therefore keeps time relative to the end of the latest step: when a     *)
(* step ends, every stored timestamp is shifted by the same amount so that *)
(* the clock reads Now again, and a timestamp older than every threshold   *)
(* it is compared with is kept one tick older than the largest of them     *)
(* (Rebase).  Within a step the operators work on timestamps, as the code  *)
(* does.  Behaviours are of any length.                                    *)
(*                                                                         *)
(* Spec, SpecMoving and SpecScrub are the frame loop before three kinds of *)
(* user, each at a camera pace of its own; SpecFingers, SpecSwipes and     *)
(* SpecAfterSwipe are handle_gestures called on its own, one tick or       *)
(* play_pause_cooldown after the call before.                              *)
(*                                                                         *)
(* A hand observation is the record of what the loop derives from the      *)
(* landmarks of one hand (main.py 219-229): finger_count, is_pinching and  *)
(* the wrist pixel position.  Python's None is NoCount / NoPos /           *)
(* NoProgress (-1) for numbers, "none" for the string-valued fields.       *)
(***************************************************************************)
EXTENDS Integers, Sequences, FiniteSets, TLC

VARIABLES
    ctl,      \* the fields of GestureSpotifyController (main.py 7-54)
    tracker,  \* the fields of HandTracker the loop uses (hand_tracker.py 37-41)
    loop,     \* the locals of run(): frame_count parity, last_hand_landmarks, crashed
    out,      \* the backend commands issued during the latest step
    frame,    \* what the latest step was: its clock samples, its mode, what the
              \* filter was fed and what it reported (observation only)
    log,      \* what has happened up to and including the latest step: the
              \* latest command of each kind, scrub exit and appearance
              \* (observation only)
    probe     \* the argument and the result of the latest call of a function
              \* on its own (observation only)

vars == <<ctl, tracker, loop, out, frame, log, probe>>

-----------------------------------------------------------------------------
(* Program constants, in ticks of 0.1 s unless said otherwise *)

post_scrub_cooldown == 20
swipe_same_direction_cooldown == 8
swipe_opposite_direction_cooldown == 30
swipe_to_other_action_cooldown == 10
stability_threshold == 3
hand_appearance_cooldown == 6
track_fetch_interval == 20
play_pause_cooldown == 15
volume_cooldown == 10
scrub_interval == 2
cooldown_seconds == 5
history_maxlen == 10
min_history == 8
horizontal_threshold == 120
vertical_threshold == 80
ms_per_pixel == 250
min_scrub_ms == 500
end_margin_ms == 1000
volume_step == 10
frame_height == 480
process_every_n_frames == 2

NoCount == -1
NoPos == -1
NoProgress == -1

-----------------------------------------------------------------------------
(* Bounds of the model *)

Now == 100        \* what the clock reads when a step has ended
MaxGap == 1       \* the longest wait between two steps, in periods
MaxDrift == 1     \* ticks the clock may advance between the samples of one step
FramePeriod == 3  \* ticks between two camera frames
SlowPeriod == 5   \* ticks between two frames of a slower camera
FastPeriod == 1   \* ticks between two frames of a faster camera

(* The stable counts of the play/pause scenario, one every play_pause_cooldown *)
(* or later                                                                    *)
Script == <<1, 1, 1, 2, 2, 1, 1>>

Abs(n) == IF n < 0 THEN -n ELSE n
Max(a, b) == IF a >= b THEN a ELSE b
Min(a, b) == IF a <= b THEN a ELSE b

NoInfo == [ok |-> FALSE, progress_ms |-> 0, duration_ms |-> 0]
Track(p, d) == [ok |-> TRUE, progress_ms |-> p, duration_ms |-> d]
TrackInfos == {NoInfo, Track(10000, 11000), Track(200, 500)}

Hand(fc, p, x, y) == [finger_count |-> fc, is_pinching |-> p, wrist_x |-> x, wrist_y |-> y]

OneHandObs ==
    {<<Hand(1, FALSE, 100, 200)>>}

TwoHandObs ==
    {<<Hand(4, FALSE, 300, 200), Hand(1, TRUE, 100, 200)>>,
     <<Hand(1, FALSE, 100, 200), Hand(2, FALSE, 300, 200)>>}

Observations == {<<>>} \cup OneHandObs \cup TwoHandObs

-----------------------------------------------------------------------------
(* Commands *)

Cmd(name, arg, t) == [cmd |-> name, arg |-> arg, at |-> t]

SwipeCmds == {"previous_track", "next_track"}
SingleHandCmds == {"previous_track", "next_track", "play_pause", "adjust_volume"}

-----------------------------------------------------------------------------
(* A filter that wants the count held for more than the threshold *)
get_stable_finger_count_late(c, finger_count, current_time) ==
    IF finger_count # c.stable_finger_count
    THEN [c |-> [c EXCEPT !.stable_finger_count = finger_count,
                          !.finger_count_start_time = current_time],
          ret |-> NoCount]
    ELSE IF (current_time - c.finger_count_start_time) > stability_threshold
         THEN [c |-> c, ret |-> finger_count]
         ELSE [c |-> c, ret |-> NoCount]

(* main.py 56-67 *)
get_stable_finger_count(c, finger_count, current_time) ==
    IF finger_count # c.stable_finger_count
    THEN [c |-> [c EXCEPT !.stable_finger_count = finger_count,
                          !.finger_count_start_time = current_time],
          ret |-> NoCount]
    ELSE IF (current_time - c.finger_count_start_time) >= stability_threshold
         THEN [c |-> c, ret |-> finger_count]
         ELSE [c |-> c, ret |-> NoCount]

Opposite(dir) == IF dir = "left" THEN "right" ELSE "left"

(* A swipe cooldown that is the same after either direction *)
swipe_cooldown_any_direction(last_swipe_direction, dir) ==
    IF last_swipe_direction \in {dir, Opposite(dir)} THEN swipe_same_direction_cooldown
    ELSE 0

(* main.py 78-83 and 92-97: the cooldown a swipe of direction dir must wait *)
swipe_cooldown(last_swipe_direction, dir) ==
    IF last_swipe_direction = dir THEN swipe_same_direction_cooldown
    ELSE IF last_swipe_direction = Opposite(dir) THEN swipe_opposite_direction_cooldown
    ELSE 0

(* main.py 77-103: m is [c, out] *)
handle_swipe(m, gesture, current_time) ==
    LET c == m.c
        dir == IF gesture = "swipe_left" THEN "left" ELSE "right"
        time_since_swipe == current_time - c.last_swipe_time
    IN  IF gesture \in {"swipe_left", "swipe_right"}
           /\ time_since_swipe > swipe_cooldown(c.last_swipe_direction, dir)
        THEN [c |-> [c EXCEPT !.last_swipe_time = current_time,
                              !.last_swipe_direction = dir],
              out |-> Append(m.out,
                        Cmd(IF dir = "left" THEN "previous_track" ELSE "next_track",
                            0, current_time))]
        ELSE m

(* A play/pause arbitration that does not look at the latest swipe *)
handle_play_pause_despite_swipe(m, stable_count, current_time) ==
    LET c == m.c
        play_pause_in_cooldown == (current_time - c.last_play_pause_time) < play_pause_cooldown
    IN  IF stable_count = 1
        THEN IF c.play_pause_armed /\ ~play_pause_in_cooldown
             THEN [c |-> [c EXCEPT !.last_play_pause_time = current_time,
                                   !.play_pause_armed = FALSE],
                   out |-> Append(m.out, Cmd("play_pause", 0, current_time))]
             ELSE m
        ELSE IF stable_count # NoCount /\ stable_count # 1
             THEN IF ~play_pause_in_cooldown
                  THEN [m EXCEPT !.c.play_pause_armed = TRUE]
                  ELSE m
             ELSE m

(* A play/pause arbitration that stays armed after it fires *)
handle_play_pause_stays_armed(m, stable_count, current_time) ==
    LET c == m.c
        play_pause_in_cooldown == (current_time - c.last_play_pause_time) < play_pause_cooldown
        after_swipe_cooldown == (current_time - c.last_swipe_time) < swipe_to_other_action_cooldown
    IN  IF stable_count = 1
        THEN IF c.play_pause_armed /\ ~play_pause_in_cooldown /\ ~after_swipe_cooldown
             THEN [c |-> [c EXCEPT !.last_play_pause_time = current_time],
                   out |-> Append(m.out, Cmd("play_pause", 0, current_time))]
             ELSE m
        ELSE IF stable_count # NoCount /\ stable_count # 1
             THEN IF ~play_pause_in_cooldown
                  THEN [m EXCEPT !.c.play_pause_armed = TRUE]
                  ELSE m
             ELSE m

(* main.py 105-116 *)
handle_play_pause(m, stable_count, current_time) ==
    LET c == m.c
        play_pause_in_cooldown == (current_time - c.last_play_pause_time) < play_pause_cooldown
        after_swipe_cooldown == (current_time - c.last_swipe_time) < swipe_to_other_action_cooldown
    IN  IF stable_count = 1
        THEN IF c.play_pause_armed /\ ~play_pause_in_cooldown /\ ~after_swipe_cooldown
             THEN [c |-> [c EXCEPT !.last_play_pause_time = current_time,
                                   !.play_pause_armed = FALSE],
                   out |-> Append(m.out, Cmd("play_pause", 0, current_time))]
             ELSE m
        ELSE IF stable_count # NoCount /\ stable_count # 1
             THEN IF ~play_pause_in_cooldown
                  THEN [m EXCEPT !.c.play_pause_armed = TRUE]
                  ELSE m
             ELSE m

(* A volume arbitration that does not look at the latest swipe *)
handle_volume_despite_swipe(m, stable_count, current_time) ==
    LET c == m.c
        volume_in_cooldown == (current_time - c.last_volume_time) < volume_cooldown
    IN  IF stable_count = NoCount THEN m
        ELSE IF stable_count \notin {2, 3}
        THEN IF ~volume_in_cooldown
             THEN [m EXCEPT !.c.volume_gesture_armed = TRUE,
                            !.c.last_volume_gesture = "none"]
             ELSE m
        ELSE IF volume_in_cooldown THEN m
        ELSE IF ~c.volume_gesture_armed THEN m
        ELSE IF stable_count = 2 /\ c.last_volume_gesture # "up"
        THEN [c |-> [c EXCEPT !.last_volume_gesture = "up",
                              !.last_volume_time = current_time,
                              !.volume_gesture_armed = FALSE],
              out |-> Append(m.out, Cmd("adjust_volume", volume_step, current_time))]
        ELSE IF stable_count = 3 /\ c.last_volume_gesture # "down"
        THEN [c |-> [c EXCEPT !.last_volume_gesture = "down",
                              !.last_volume_time = current_time,
                              !.volume_gesture_armed = FALSE],
              out |-> Append(m.out, Cmd("adjust_volume", -volume_step, current_time))]
        ELSE m

(* A volume arbitration that re-arms on a count other than 2 and 3 at once *)
handle_volume_rearming_early(m, stable_count, current_time) ==
    LET c == m.c
        volume_in_cooldown == (current_time - c.last_volume_time) < volume_cooldown
        after_swipe_cooldown == (current_time - c.last_swipe_time) < swipe_to_other_action_cooldown
    IN  IF stable_count = NoCount THEN m
        ELSE IF stable_count \notin {2, 3}
        THEN [m EXCEPT !.c.volume_gesture_armed = TRUE,
                       !.c.last_volume_gesture = "none"]
        ELSE IF volume_in_cooldown \/ after_swipe_cooldown THEN m
        ELSE IF ~c.volume_gesture_armed THEN m
        ELSE IF stable_count = 2 /\ c.last_volume_gesture # "up"
        THEN [c |-> [c EXCEPT !.last_volume_gesture = "up",
                              !.last_volume_time = current_time,
                              !.volume_gesture_armed = FALSE],
              out |-> Append(m.out, Cmd("adjust_volume", volume_step, current_time))]
        ELSE IF stable_count = 3 /\ c.last_volume_gesture # "down"
        THEN [c |-> [c EXCEPT !.last_volume_gesture = "down",
                              !.last_volume_time = current_time,
                              !.volume_gesture_armed = FALSE],
              out |-> Append(m.out, Cmd("adjust_volume", -volume_step, current_time))]
        ELSE m

(* main.py 118-140 *)
handle_volume(m, stable_count, current_time) ==
    LET c == m.c
        volume_in_cooldown == (current_time - c.last_volume_time) < volume_cooldown
        after_swipe_cooldown == (current_time - c.last_swipe_time) < swipe_to_other_action_cooldown
    IN  IF stable_count = NoCount THEN m
        ELSE IF stable_count \notin {2, 3}
        THEN IF ~volume_in_cooldown
             THEN [m EXCEPT !.c.volume_gesture_armed = TRUE,
                            !.c.last_volume_gesture = "none"]
             ELSE m
        ELSE IF volume_in_cooldown \/ after_swipe_cooldown THEN m
        ELSE IF ~c.volume_gesture_armed THEN m
        ELSE IF stable_count = 2 /\ c.last_volume_gesture # "up"
        THEN [c |-> [c EXCEPT !.last_volume_gesture = "up",
                              !.last_volume_time = current_time,
                              !.volume_gesture_armed = FALSE],
              out |-> Append(m.out, Cmd("adjust_volume", volume_step, current_time))]
        ELSE IF stable_count = 3 /\ c.last_volume_gesture # "down"
        THEN [c |-> [c EXCEPT !.last_volume_gesture = "down",
                              !.last_volume_time = current_time,
                              !.volume_gesture_armed = FALSE],
              out |-> Append(m.out, Cmd("adjust_volume", -volume_step, current_time))]
        ELSE m

(* main.py 69-140: t_stable is the sample of line 57, t_handle that of line 74. *)
(* The result also carries stable, what the filter reported (NoCount when the  *)
(* backend is disabled and the filter is not called).                          *)
handle_gestures(m, gesture, finger_count, t_stable, t_handle) ==
    IF ~m.c.spotify_enabled
    THEN [c |-> m.c, out |-> m.out, stable |-> NoCount, fed |-> NoCount]
    ELSE LET r == get_stable_finger_count(m.c, finger_count, t_stable)
             m1 == handle_swipe([c |-> r.c, out |-> m.out], gesture, t_handle)
             m2 == handle_play_pause(m1, r.ret, t_handle)
             m3 == handle_volume(m2, r.ret, t_handle)
         IN  [c |-> m3.c, out |-> m3.out, stable |-> r.ret, fed |-> finger_count]

(* main.py 142-147: info is what the backend answers if it is asked *)
get_track_info_cached(c, current_time, info) ==
    IF current_time - c.last_track_fetch_time > track_fetch_interval
    THEN [c EXCEPT !.cached_track_info = info, !.last_track_fetch_time = current_time]
    ELSE c

-----------------------------------------------------------------------------
(* hand_tracker.py 37: deque(maxlen=10).append *)
history_append(h, pos) ==
    IF Len(h) >= history_maxlen THEN Append(Tail(h), pos) ELSE Append(h, pos)

(* A classification that takes a horizontal distance equal to the threshold *)
swipe_direction_at_threshold(h) ==
    IF Len(h) < min_history THEN "none"
    ELSE LET horizontal_distance == h[Len(h)][1] - h[1][1]
             vertical_distance == Abs(h[Len(h)][2] - h[1][2])
         IN  IF Abs(horizontal_distance) >= horizontal_threshold
                /\ vertical_distance < vertical_threshold
                /\ 2 * Abs(horizontal_distance) > 3 * vertical_distance
             THEN IF horizontal_distance > 0 THEN "swipe_right" ELSE "swipe_left"
             ELSE "none"

(* hand_tracker.py 118-144: the direction, or "none" *)
swipe_direction(h) ==
    IF Len(h) < min_history THEN "none"
    ELSE LET horizontal_distance == h[Len(h)][1] - h[1][1]
             vertical_distance == Abs(h[Len(h)][2] - h[1][2])
         IN  IF Abs(horizontal_distance) > horizontal_threshold
                /\ vertical_distance < vertical_threshold
                /\ 2 * Abs(horizontal_distance) > 3 * vertical_distance
             THEN IF horizontal_distance > 0 THEN "swipe_right" ELSE "swipe_left"
             ELSE "none"

(* A detector that takes the direction from where the newest wrist is *)
detect_swipe_by_column(h) ==
    LET d == swipe_direction(h)
    IN  [ret |-> IF d = "none" THEN d
                 ELSE IF h[Len(h)][1] > 320 THEN "swipe_right" ELSE "swipe_left",
         history |-> IF d # "none" THEN <<>> ELSE h]

(* A detector that keeps the history it has classified *)
detect_swipe_keeping_history(h) ==
    [ret |-> swipe_direction(h), history |-> h]

(* hand_tracker.py 118-144 with the side effect of line 137 *)
detect_swipe(h) ==
    LET d == swipe_direction(h)
    IN  [ret |-> d, history |-> IF d # "none" THEN <<>> ELSE h]

(* A gate that is always open *)
can_trigger_gesture_always(tr, current_time) == TRUE

(* hand_tracker.py 193-198 *)
can_trigger_gesture(tr, current_time) ==
    current_time - tr.last_gesture_time > cooldown_seconds

(* hand_tracker.py 200-202 *)
mark_gesture_triggered(tr, current_time) ==
    [tr EXCEPT !.last_gesture_time = current_time]

-----------------------------------------------------------------------------
(* Roles that are looked for with the first hand as the trigger only *)
scrub_roles_first_hand_triggers(hands) ==
    IF Len(hands) = 2 /\ hands[1].finger_count >= 4 /\ hands[2].is_pinching
    THEN [trigger |-> 1, control |-> 2]
    ELSE [trigger |-> 0, control |-> 0]

(* main.py 231-241: which hand triggers and which controls, 0 when not scrub *)
scrub_roles(hands) ==
    IF Len(hands) = 2
    THEN IF hands[1].finger_count >= 4 /\ hands[2].is_pinching
         THEN [trigger |-> 1, control |-> 2]
         ELSE IF hands[2].finger_count >= 4 /\ hands[1].is_pinching
         THEN [trigger |-> 2, control |-> 1]
         ELSE [trigger |-> 0, control |-> 0]
    ELSE [trigger |-> 0, control |-> 0]

(* A seek target that is not held back from the end of the track *)
seek_target_unbounded(scrub_start_progress, scrub_ms, duration_ms) ==
    Max(0, scrub_start_progress + scrub_ms)

(* main.py 261-264 *)
seek_target(scrub_start_progress, scrub_ms, duration_ms) ==
    Max(0, Min(scrub_start_progress + scrub_ms, duration_ms - end_margin_ms))

(* main.py 256 and 258: delta_x is a difference of pixel columns, so int() is exact *)
scrub_ms_of(pinch_x, scrub_start_x) == (pinch_x - scrub_start_x) * ms_per_pixel

(* A seek that is due as soon as the displacement reaches the threshold *)
seek_due_at_threshold(c, scrub_ms, current_time) ==
    Abs(scrub_ms) >= min_scrub_ms /\ (current_time - c.last_scrub_time) > scrub_interval

(* main.py 258 *)
seek_due(c, scrub_ms, current_time) ==
    Abs(scrub_ms) > min_scrub_ms /\ (current_time - c.last_scrub_time) > scrub_interval

(* A scrub branch that takes the origin progress later in the session, once   *)
(* the cache holds a track                                                    *)
scrub_step_late_origin(c, pinch_x, current_time, t_cache, info) ==
    IF c.scrubbing_active /\ c.scrub_start_progress = NoProgress
       /\ c.cached_track_info.ok
    THEN [c |-> [c EXCEPT !.scrub_start_progress = c.cached_track_info.progress_ms],
          out |-> <<>>, crashed |-> FALSE]
    ELSE
    IF ~c.scrubbing_active
    THEN LET c1 == [c EXCEPT !.scrubbing_active = TRUE, !.scrub_start_x = pinch_x]
         IN  IF ~c.spotify_enabled
             THEN [c |-> c1, out |-> <<>>, crashed |-> TRUE]
             ELSE LET c2 == get_track_info_cached(c1, t_cache, info)
                  IN  [c |-> IF c2.cached_track_info.ok
                             THEN [c2 EXCEPT !.scrub_start_progress =
                                                 c2.cached_track_info.progress_ms]
                             ELSE c2,
                       out |-> <<>>, crashed |-> FALSE]
    ELSE IF c.scrub_start_x # NoPos /\ c.scrub_start_progress # NoProgress
              /\ seek_due(c, scrub_ms_of(pinch_x, c.scrub_start_x), current_time)
         THEN LET c2 == get_track_info_cached(c, t_cache, info)
              IN  IF c2.cached_track_info.ok
                  THEN [c |-> [c2 EXCEPT !.last_scrub_time = current_time],
                        out |-> <<Cmd("seek_position",
                                      seek_target(c.scrub_start_progress,
                                                  scrub_ms_of(pinch_x, c.scrub_start_x),
                                                  c2.cached_track_info.duration_ms),
                                      current_time)>>,
                        crashed |-> FALSE]
                  ELSE [c |-> c2, out |-> <<>>, crashed |-> FALSE]
         ELSE [c |-> c, out |-> <<>>, crashed |-> FALSE]

(* main.py 243-266: the scrub branch.  Without a backend the call of line 249  *)
(* reads self.spotify, which __init__ never set: the exception ends run().     *)
scrub_step(c, pinch_x, current_time, t_cache, info) ==
    IF ~c.scrubbing_active
    THEN LET c1 == [c EXCEPT !.scrubbing_active = TRUE, !.scrub_start_x = pinch_x]
         IN  IF ~c.spotify_enabled
             THEN [c |-> c1, out |-> <<>>, crashed |-> TRUE]
             ELSE LET c2 == get_track_info_cached(c1, t_cache, info)
                  IN  [c |-> IF c2.cached_track_info.ok
                             THEN [c2 EXCEPT !.scrub_start_progress =
                                                 c2.cached_track_info.progress_ms]
                             ELSE c2,
                       out |-> <<>>, crashed |-> FALSE]
    ELSE IF c.scrub_start_x # NoPos /\ c.scrub_start_progress # NoProgress
              /\ seek_due(c, scrub_ms_of(pinch_x, c.scrub_start_x), current_time)
         THEN LET c2 == get_track_info_cached(c, t_cache, info)
              IN  IF c2.cached_track_info.ok
                  THEN [c |-> [c2 EXCEPT !.last_scrub_time = current_time],
                        out |-> <<Cmd("seek_position",
                                      seek_target(c.scrub_start_progress,
                                                  scrub_ms_of(pinch_x, c.scrub_start_x),
                                                  c2.cached_track_info.duration_ms),
                                      current_time)>>,
                        crashed |-> FALSE]
                  ELSE [c |-> c2, out |-> <<>>, crashed |-> FALSE]
         ELSE [c |-> c, out |-> <<>>, crashed |-> FALSE]

(* An exit from scrub mode that leaves the scrub origin in place *)
scrub_exit_keeping_origin(c, current_time) ==
    [c EXCEPT !.scrub_end_time = IF c.scrubbing_active THEN current_time ELSE @,
              !.scrubbing_active = FALSE]

(* main.py 271-276 *)
scrub_exit(c, current_time) ==
    [c EXCEPT !.scrub_end_time = IF c.scrubbing_active THEN current_time ELSE @,
              !.scrubbing_active = FALSE,
              !.scrub_start_x = NoPos,
              !.scrub_start_progress = NoProgress]

(* A cancellation that leaves the scrub origin in place *)
scrub_cancel_keeping_origin(c) ==
    [c EXCEPT !.hand_was_visible = FALSE,
              !.scrubbing_active = FALSE]

(* main.py 327-330 *)
scrub_cancel(c) ==
    [c EXCEPT !.hand_was_visible = FALSE,
              !.scrubbing_active = FALSE,
              !.scrub_start_x = NoPos,
              !.scrub_start_progress = NoProgress]

(* main.py 289-290 *)
in_cooldown(c, current_time) ==
    (current_time - c.scrub_end_time) < post_scrub_cooldown
    \/ (current_time - c.hand_first_seen_time) < hand_appearance_cooldown

(* main.py 305 *)
hand_in_swipe_zone(wrist_y) == 100 * wrist_y < 85 * frame_height

(* A single-hand branch that hands the finger count on during a cooldown *)
single_hand_step_counting_in_cooldown(c, tr, hand, T) ==
    LET in_any_cooldown == in_cooldown(c, T[1])
        ds == detect_swipe(history_append(tr.position_history,
                                          <<hand.wrist_x, hand.wrist_y>>))
        tr1 == [tr EXCEPT !.position_history = ds.history]
        passes == ds.ret # "none" /\ can_trigger_gesture(tr1, T[3])
                  /\ hand_in_swipe_zone(hand.wrist_y) /\ ~in_any_cooldown
        tr2 == IF passes THEN mark_gesture_triggered(tr1, T[4]) ELSE tr1
        gesture == IF hand.is_pinching /\ ~in_any_cooldown THEN "pinch"
                   ELSE IF passes THEN ds.ret ELSE "none"
        r == IF ~in_any_cooldown
             THEN handle_gestures([c |-> c, out |-> <<>>], gesture,
                                  hand.finger_count, T[5], T[6])
             ELSE handle_gestures([c |-> c, out |-> <<>>], "none",
                                  hand.finger_count, T[5], T[6])
    IN  [c |-> r.c, tr |-> tr2, out |-> r.out, crashed |-> FALSE,
         mode |-> "single", cooldown |-> in_any_cooldown, swipe |-> ds.ret,
         passed |-> passes, gesture |-> gesture, stable |-> r.stable, fed |-> r.fed]

(* main.py 296-318: the single-hand branch; T are the frame's clock samples *)
single_hand_step(c, tr, hand, T) ==
    LET in_any_cooldown == in_cooldown(c, T[1])
        ds == detect_swipe(history_append(tr.position_history,
                                          <<hand.wrist_x, hand.wrist_y>>))
        tr1 == [tr EXCEPT !.position_history = ds.history]
        passes == ds.ret # "none" /\ can_trigger_gesture(tr1, T[3])
                  /\ hand_in_swipe_zone(hand.wrist_y) /\ ~in_any_cooldown
        tr2 == IF passes THEN mark_gesture_triggered(tr1, T[4]) ELSE tr1
        gesture == IF hand.is_pinching /\ ~in_any_cooldown THEN "pinch"
                   ELSE IF passes THEN ds.ret ELSE "none"
        r == IF ~in_any_cooldown
             THEN handle_gestures([c |-> c, out |-> <<>>], gesture,
                                  hand.finger_count, T[5], T[6])
             ELSE handle_gestures([c |-> c, out |-> <<>>], "none", 0, T[5], T[6])
    IN  [c |-> r.c, tr |-> tr2, out |-> r.out, crashed |-> FALSE,
         mode |-> "single", cooldown |-> in_any_cooldown, swipe |-> ds.ret,
         passed |-> passes, gesture |-> gesture, stable |-> r.stable, fed |-> r.fed]

(* main.py 208-214: a hand shows after none did *)
hand_appears(c, tr, current_time) ==
    IF ~c.hand_was_visible
    THEN [c |-> [c EXCEPT !.hand_first_seen_time = current_time,
                          !.hand_was_visible = TRUE],
          tr |-> [tr EXCEPT !.position_history = <<>>]]
    ELSE [c |-> c, tr |-> tr]

(* A loop that hands the first hand's finger count to the arbitration when  *)
(* two hands are out of the scrub pose                                       *)
process_hands_counting_blocked(c0, tr0, hands, T, info) ==
    IF Len(hands) > 0
    THEN LET a == hand_appears(c0, tr0, T[1])
             roles == scrub_roles(hands)
         IN  IF roles.control # 0
             THEN LET s == scrub_step(a.c, hands[roles.control].wrist_x, T[1], T[3], info)
                  IN  [c |-> s.c, tr |-> a.tr, out |-> s.out, crashed |-> s.crashed,
                       mode |-> "scrub", cooldown |-> FALSE, swipe |-> "none",
                       passed |-> FALSE, gesture |-> "none", stable |-> NoCount,
                       fed |-> NoCount]
             ELSE LET c1 == scrub_exit(a.c, T[1])
                  IN  IF Len(hands) = 2
                      THEN LET r == handle_gestures([c |-> c1, out |-> <<>>],
                                                    "none", hands[1].finger_count,
                                                    T[5], T[6])
                           IN  [c |-> r.c, tr |-> a.tr, out |-> r.out, crashed |-> FALSE,
                                mode |-> "blocked", cooldown |-> FALSE, swipe |-> "none",
                                passed |-> FALSE, gesture |-> "none",
                                stable |-> r.stable, fed |-> r.fed]
                      ELSE single_hand_step(c1, a.tr, hands[1], T)
    ELSE LET r == handle_gestures([c |-> scrub_cancel(c0), out |-> <<>>],
                                  "none", 0, T[5], T[6])
         IN  [c |-> r.c, tr |-> tr0, out |-> r.out, crashed |-> FALSE,
              mode |-> "idle", cooldown |-> FALSE, swipe |-> "none",
              passed |-> FALSE, gesture |-> "none", stable |-> r.stable, fed |-> r.fed]

(* main.py 208-333: what the loop does with the hands of the frame *)
process_hands(c0, tr0, hands, T, info) ==
    IF Len(hands) > 0
    THEN LET a == hand_appears(c0, tr0, T[1])
             roles == scrub_roles(hands)
         IN  IF roles.control # 0
             THEN LET s == scrub_step(a.c, hands[roles.control].wrist_x, T[1], T[3], info)
                  IN  [c |-> s.c, tr |-> a.tr, out |-> s.out, crashed |-> s.crashed,
                       mode |-> "scrub", cooldown |-> FALSE, swipe |-> "none",
                       passed |-> FALSE, gesture |-> "none", stable |-> NoCount,
                       fed |-> NoCount]
             ELSE LET c1 == scrub_exit(a.c, T[1])
                  IN  IF Len(hands) = 2
                      THEN LET r == handle_gestures([c |-> c1, out |-> <<>>],
                                                    "none", 0, T[5], T[6])
                           IN  [c |-> r.c, tr |-> a.tr, out |-> r.out, crashed |-> FALSE,
                                mode |-> "blocked", cooldown |-> FALSE, swipe |-> "none",
                                passed |-> FALSE, gesture |-> "none",
                                stable |-> r.stable, fed |-> r.fed]
                      ELSE single_hand_step(c1, a.tr, hands[1], T)
    ELSE LET r == handle_gestures([c |-> scrub_cancel(c0), out |-> <<>>],
                                  "none", 0, T[5], T[6])
         IN  [c |-> r.c, tr |-> tr0, out |-> r.out, crashed |-> FALSE,
              mode |-> "idle", cooldown |-> FALSE, swipe |-> "none",
              passed |-> FALSE, gesture |-> "none", stable |-> r.stable, fed |-> r.fed]

(* A loop that sees no hands on a frame that does not ask the pose estimator *)
frame_hands_without_reuse(lp, det) ==
    IF (lp.frame_count + 1) % process_every_n_frames = 0 THEN det ELSE <<>>

(* main.py 175-185: which hands the frame works on; det is what the pose     *)
(* estimator would return for this frame                                     *)
frame_hands(lp, det) ==
    IF (lp.frame_count + 1) % process_every_n_frames = 0 THEN det
    ELSE lp.last_hand_landmarks

(* main.py 195-196 *)
refresh_track_info(c, current_time, info) ==
    IF c.spotify_enabled THEN get_track_info_cached(c, current_time, info) ELSE c

(* The clock samples of one frame, by call site: 1 run (176), 2 the cache of  *)
(* line 196, 3 the cache of 249/259 or can_trigger_gesture (195), 4           *)
(* mark_gesture_triggered (202), 5 the stability filter (57), 6               *)
(* handle_gestures (74).  The clock advances by d before sample k.            *)
Samples(t, k, d) == [i \in 1..6 |-> IF i >= k THEN t + d ELSE t]

ClockRuns(t, drift) ==
    {Samples(t, 2, 0)} \cup {Samples(t, k, d) : k \in 2..6, d \in 1..drift}

(* main.py 169-333: one iteration of the loop *)
run_frame(c, tr, lp, det, T, info) ==
    LET hands == frame_hands(lp, det)
        c0 == refresh_track_info(c, T[2], info)
        p == process_hands(c0, tr, hands, T, info)
        roles == scrub_roles(hands)
    IN  [c |-> p.c, tr |-> p.tr, out |-> p.out,
         lp |-> [frame_count |-> (lp.frame_count + 1) % process_every_n_frames,
                 last_hand_landmarks |-> hands,
                 crashed |-> p.crashed],
         fr |-> [mode |-> p.mode, t |-> T[1], t_stable |-> T[5], t_handle |-> T[6],
                 appeared |-> (Len(hands) > 0 /\ ~c.hand_was_visible),
                 was_scrubbing |-> c.scrubbing_active,
                 control_x |-> IF roles.control # 0 THEN hands[roles.control].wrist_x
                               ELSE NoPos,
                 swipe |-> p.swipe,
                 gate_at |-> IF p.passed THEN tr.last_gesture_time ELSE T[6],
                 gesture |-> p.gesture, stable |-> p.stable, fed |-> p.fed]]

-----------------------------------------------------------------------------
(* Relative time *)

Shift(ts, now, cap) == Now - Min(now - ts, cap)

RebaseCtl(c, now) ==
    [c EXCEPT !.last_scrub_time = Shift(@, now, scrub_interval + 1),
              !.scrub_end_time = Shift(@, now, post_scrub_cooldown + 1),
              !.last_volume_time = Shift(@, now, volume_cooldown + 1),
              !.last_play_pause_time = Shift(@, now, play_pause_cooldown + 1),
              !.last_swipe_time = Shift(@, now, swipe_opposite_direction_cooldown + 1),
              !.finger_count_start_time = Shift(@, now, stability_threshold + 1 + MaxDrift),
              !.hand_first_seen_time = Shift(@, now, hand_appearance_cooldown + 1),
              !.last_track_fetch_time = Shift(@, now, track_fetch_interval + 1)]

RebaseTracker(tr, now) ==
    [tr EXCEPT !.last_gesture_time = Shift(@, now, cooldown_seconds + 1)]

RebaseOut(o, now) ==
    [i \in 1..Len(o) |-> [o[i] EXCEPT !.at = Now - (now - @)]]

RebaseLog(lg, now) ==
    [lg EXCEPT !.swipe_at = Shift(@, now, swipe_opposite_direction_cooldown + 1),
               !.toggle_at = Shift(@, now, play_pause_cooldown + 1),
               !.volume_at = Shift(@, now, volume_cooldown + 1),
               !.seek_at = Shift(@, now, scrub_interval + 1),
               !.exit_at = Shift(@, now, post_scrub_cooldown + 1),
               !.appear_at = Shift(@, now, hand_appearance_cooldown + 1),
               !.script_at = Shift(@, now, play_pause_cooldown + 1)]

-----------------------------------------------------------------------------
(* What an observer of the steps has seen.  log is the history up to and     *)
(* including the latest step; frame is the latest step, with (before) what   *)
(* the log said, when the step began, of the kind of command it issued.      *)

Kind(name) ==
    IF name \in SwipeCmds THEN "swipe"
    ELSE IF name = "play_pause" THEN "toggle"
    ELSE IF name = "adjust_volume" THEN "volume"
    ELSE "seek"

CmdDir(c) ==
    IF c.cmd = "previous_track" THEN "left"
    ELSE IF c.cmd = "next_track" THEN "right"
    ELSE IF c.cmd = "adjust_volume" THEN (IF c.arg > 0 THEN "up" ELSE "down")
    ELSE "none"

Names(o) == {o[i].cmd : i \in 1..Len(o)}
Kinds(o) == {Kind(o[i].cmd) : i \in 1..Len(o)}
CmdsOf(o, kind) == {o[i] : i \in {j \in 1..Len(o) : Kind(o[j].cmd) = kind}}
Latest(cmds) == CHOOSE c \in cmds : \A e \in cmds : e.at <= c.at

NoBefore ==
    [had |-> FALSE, dir |-> "none", at |-> Now, rearmed |-> FALSE, kept |-> FALSE,
     released |-> FALSE]

InitLog ==
    [swiped |-> FALSE, swipe_dir |-> "none", swipe_at |-> 0,   \* latest track skip
     toggled |-> FALSE, toggle_at |-> 0,        \* the latest play_pause command
     rearmed |-> FALSE,                         \* since then a stable count other than
                                                \* 1 was reported 1.5 s or more after it
     volumed |-> FALSE, volume_dir |-> "none", volume_at |-> 0,  \* latest adjust_volume
     kept |-> FALSE,                            \* since then every stable count
                                                \* reported was 2 or 3
     released |-> FALSE,                        \* since then a stable count other than
                                                \* 2 and 3 was reported 1.0 s or more
                                                \* after it
     seeked |-> FALSE, seek_at |-> 0,           \* the latest seek_position command
     exited |-> FALSE, exit_at |-> 0,           \* the latest frame that ended a scrub
     appeared |-> FALSE, appear_at |-> 0,       \* the latest frame on which hands showed
                                                \* after a frame without hands
     origin_x |-> NoPos,                        \* the control wrist x when scrub began
     script_pos |-> 0, script_at |-> 0]         \* how many stable counts of Script
                                                \* have been reported so far, each in
                                                \* time and without a swipe (-1: the
                                                \* calls left the script), and when
                                                \* the latest was

(* What the log lg says of the latest command of the kind of o's first command *)
Before(lg, o) ==
    IF o = <<>> THEN NoBefore
    ELSE LET k == Kind(o[1].cmd)
         IN  IF k = "swipe"
             THEN [NoBefore EXCEPT !.had = lg.swiped, !.dir = lg.swipe_dir,
                                   !.at = lg.swipe_at]
             ELSE IF k = "toggle"
             THEN [NoBefore EXCEPT !.had = lg.toggled, !.at = lg.toggle_at,
                                   !.rearmed = lg.rearmed]
             ELSE IF k = "volume"
             THEN [NoBefore EXCEPT !.had = lg.volumed, !.dir = lg.volume_dir,
                                   !.at = lg.volume_at, !.kept = lg.kept,
                                   !.released = lg.released]
             ELSE [NoBefore EXCEPT !.had = lg.seeked, !.at = lg.seek_at]

(* The frame record of a step: r.fr and what the log said before the step *)
Observed(lg, r, now) ==
    LET b == Before(lg, r.out)
    IN  [mode |-> r.fr.mode,
         t |-> Now - (now - r.fr.t),
         t_stable |-> Now - (now - r.fr.t_stable),
         t_handle |-> Now - (now - r.fr.t_handle),
         appeared |-> r.fr.appeared, was_scrubbing |-> r.fr.was_scrubbing,
         control_x |-> r.fr.control_x,
         swipe |-> r.fr.swipe,
         gate_at |-> Shift(r.fr.gate_at, now, cooldown_seconds + 1),
         gesture |-> r.fr.gesture, stable |-> r.fr.stable, fed |-> r.fr.fed,
         before |-> IF r.out = <<>> THEN NoBefore ELSE [b EXCEPT !.at = Now - (now - @)]]

(* The log with the step r added *)
LogAfter(lg, r) ==
    LET o == r.out
        fr == r.fr
        sc == r.c.scrubbing_active
        sw == CmdsOf(o, "swipe")
        tg == CmdsOf(o, "toggle")
        vo == CmdsOf(o, "volume")
        sk == CmdsOf(o, "seek")
        pos == IF lg.script_pos = -1 \/ sw # {} THEN -1
               ELSE IF fr.stable = NoCount THEN lg.script_pos
               ELSE IF /\ lg.script_pos < Len(Script)
                       /\ fr.stable = Script[lg.script_pos + 1]
                       /\ \/ lg.script_pos = 0
                          \/ fr.t_handle - lg.script_at >= play_pause_cooldown
                    THEN lg.script_pos + 1
               ELSE -1
    IN  [swiped |-> lg.swiped \/ sw # {},
         swipe_dir |-> IF sw = {} THEN lg.swipe_dir ELSE CmdDir(Latest(sw)),
         swipe_at |-> IF sw = {} THEN lg.swipe_at ELSE Latest(sw).at,
         toggled |-> lg.toggled \/ tg # {},
         toggle_at |-> IF tg = {} THEN lg.toggle_at ELSE Latest(tg).at,
         rearmed |-> IF tg # {} THEN FALSE
                     ELSE lg.rearmed
                          \/ (/\ lg.toggled
                              /\ fr.stable \notin {NoCount, 1}
                              /\ fr.t_handle - lg.toggle_at >= play_pause_cooldown),
         volumed |-> lg.volumed \/ vo # {},
         volume_dir |-> IF vo = {} THEN lg.volume_dir ELSE CmdDir(Latest(vo)),
         volume_at |-> IF vo = {} THEN lg.volume_at ELSE Latest(vo).at,
         kept |-> IF vo # {} THEN TRUE
                  ELSE lg.kept /\ fr.stable \in {NoCount, 2, 3},
         released |-> IF vo # {} THEN FALSE
                      ELSE lg.released
                           \/ (/\ lg.volumed
                               /\ fr.stable \notin {NoCount, 2, 3}
                               /\ fr.t_handle - lg.volume_at >= volume_cooldown),
         seeked |-> lg.seeked \/ sk # {},
         seek_at |-> IF sk = {} THEN lg.seek_at ELSE Latest(sk).at,
         exited |-> lg.exited \/ (fr.was_scrubbing /\ ~sc),
         exit_at |-> IF fr.was_scrubbing /\ ~sc THEN fr.t ELSE lg.exit_at,
         appeared |-> lg.appeared \/ fr.appeared,
         appear_at |-> IF fr.appeared THEN fr.t ELSE lg.appear_at,
         origin_x |-> IF ~sc THEN NoPos
                      ELSE IF ~fr.was_scrubbing THEN fr.control_x
                      ELSE lg.origin_x,
         script_pos |-> pos,
         script_at |-> IF pos = lg.script_pos /\ pos # -1 THEN lg.script_at
                       ELSE fr.t_handle]

-----------------------------------------------------------------------------
(* main.py 7-54 *)
InitCtl(enabled) ==
    [spotify_enabled |-> enabled,
     scrubbing_active |-> FALSE, scrub_start_x |-> NoPos,
     scrub_start_progress |-> NoProgress, last_scrub_time |-> 0, scrub_end_time |-> 0,
     last_volume_gesture |-> "none", last_volume_time |-> 0, volume_gesture_armed |-> TRUE,
     last_play_pause_time |-> 0, play_pause_armed |-> TRUE,
     last_swipe_time |-> 0, last_swipe_direction |-> "none",
     stable_finger_count |-> NoCount, finger_count_start_time |-> 0,
     hand_first_seen_time |-> 0, hand_was_visible |-> FALSE,
     cached_track_info |-> NoInfo, last_track_fetch_time |-> 0]

(* hand_tracker.py 37-41 *)
InitTracker == [position_history |-> <<>>, last_gesture_time |-> 0]

(* main.py 164-167 *)
InitLoop == [frame_count |-> 0, last_hand_landmarks |-> <<>>, crashed |-> FALSE]

NoProbe == [fn |-> "none", arg |-> <<>>, ret |-> "none"]

NoFrame ==
    [mode |-> "none", t |-> Now, t_stable |-> Now, t_handle |-> Now,
     appeared |-> FALSE, was_scrubbing |-> FALSE, control_x |-> NoPos,
     swipe |-> "none", gate_at |-> Now, gesture |-> "none", stable |-> NoCount,
     fed |-> NoCount, before |-> NoBefore]

(* The state when run() enters its loop; spotify_enabled is whether         *)
(* SpotifyController() could be constructed (main.py 9-15)                  *)
Init ==
    /\ ctl \in {RebaseCtl(InitCtl(e), Now) : e \in BOOLEAN}
    /\ tracker = RebaseTracker(InitTracker, Now)
    /\ loop = InitLoop
    /\ out = <<>>
    /\ frame = NoFrame
    /\ log = RebaseLog(InitLog, Now)
    /\ probe = NoProbe

(* The state after a step that computed r and ended when the clock read now *)
Becomes(r, now) ==
    /\ ctl' = RebaseCtl(r.c, now)
    /\ tracker' = RebaseTracker(r.tr, now)
    /\ loop' = r.lp
    /\ out' = RebaseOut(r.out, now)
    /\ frame' = Observed(log, r, now)
    /\ log' = RebaseLog(LogAfter(log, r), now)
    /\ probe' = probe

(* The inputs of one frame.  The pose estimator is asked only on every      *)
(* process_every_n_frames-th frame, the backend only when the cache is stale. *)
DetectorAnswers(lp, observations) ==
    IF (lp.frame_count + 1) % process_every_n_frames = 0 THEN observations ELSE {<<>>}

BackendAnswers(c, t_latest) ==
    IF c.spotify_enabled /\ t_latest - c.last_track_fetch_time > track_fetch_interval
    THEN TrackInfos ELSE {NoInfo}

(* One iteration of run()'s loop whose hands, as the loop sees them, are in  *)
(* mode; it begins gap ticks after the one before, and the clock advances by *)
(* at most drift while it runs                                               *)
Frame(mode, observations, gaps, drift) ==
    /\ ~loop.crashed
    /\ \E gap \in gaps, det \in DetectorAnswers(loop, observations) :
       \E T \in ClockRuns(Now + gap, drift) :
       \E info \in BackendAnswers(ctl, T[6]) :
       \E r \in {run_frame(ctl, tracker, loop, det, T, info)} :
          /\ r.fr.mode = mode
          /\ Becomes(r, T[6])

-----------------------------------------------------------------------------
(* The loop before a user who shows no hand, one hand with one finger up,    *)
(* the scrub pose, or two hands out of the scrub pose                        *)

FrameGaps == {FramePeriod * k : k \in 1..MaxGap}

IdleFrame == Frame("idle", Observations, FrameGaps, 0)
SingleHandFrame == Frame("single", Observations, FrameGaps, 0)
BlockedFrame == Frame("blocked", Observations, FrameGaps, 0)
ScrubFrame == Frame("scrub", Observations, FrameGaps, 0)

Next == IdleFrame \/ SingleHandFrame \/ BlockedFrame \/ ScrubFrame

Spec == Init /\ [][Next]_vars

(* The loop, on a slower camera, before a user who moves one hand, a fist or *)
(* one finger up, between two places, or takes it away                       *)

SlowGaps == {SlowPeriod * k : k \in 1..MaxGap}

MovingObs == {<<>>} \cup {<<Hand(fc, FALSE, x, 200)>> : fc \in {0, 1}, x \in {100, 260}}

AwayFrame == Frame("idle", MovingObs, SlowGaps, 0)
MovingFrame == Frame("single", MovingObs, SlowGaps, 0)

SpecMoving == Init /\ [][AwayFrame \/ MovingFrame]_vars

(* The loop, on a fast camera, before a user who holds the scrub pose and    *)
(* moves the pinching hand, or takes both hands away                         *)

ScrubGaps == {FastPeriod * k : k \in 1..MaxGap}

ScrubObs ==
    {<<>>} \cup {<<Hand(4, FALSE, 300, 200), Hand(1, TRUE, x, 200)>> : x \in {100, 102, 103}}

RestFrame == Frame("idle", ScrubObs, ScrubGaps, 0)
PinchFrame == Frame("scrub", ScrubObs, ScrubGaps, 0)

SpecScrub == Init /\ [][RestFrame \/ PinchFrame]_vars

-----------------------------------------------------------------------------
(* handle_gestures on its own: the calls the loop can make (main.py 284,     *)
(* 316, 318, 331), at any time after the one before                          *)

CallGaps == 1..MaxGap \cup {play_pause_cooldown}

call_handle_gestures(c, gesture, finger_count, T) ==
    LET r == handle_gestures([c |-> c, out |-> <<>>], gesture, finger_count, T[5], T[6])
    IN  [c |-> r.c, tr |-> tracker, out |-> r.out, lp |-> loop,
         fr |-> [mode |-> "call", t |-> T[5], t_stable |-> T[5], t_handle |-> T[6],
                 appeared |-> FALSE, was_scrubbing |-> FALSE, control_x |-> NoPos,
                 swipe |-> "none", gate_at |-> T[6], gesture |-> gesture,
                 stable |-> r.stable, fed |-> r.fed]]

Call(gestures, counts, gaps, drift) ==
    \E gap \in gaps, g \in gestures, fc \in counts, d \in 0..drift :
    \E T \in {Samples(Now + gap, 6, d)} :
    \E r \in {call_handle_gestures(ctl, g, fc, T)} :
       Becomes(r, T[6])

(* Calls without a swipe, of any finger count *)
FingerCall == Call({"none"}, 0..3, CallGaps, MaxDrift)

SpecFingers == Init /\ [][FingerCall]_vars

(* Calls with a swipe or none, of a fist *)
SwipeCall == Call({"swipe_left", "swipe_right"}, {0}, CallGaps, MaxDrift)
FistCall == Call({"none"}, {0}, CallGaps, MaxDrift)

SpecSwipes == Init /\ [][SwipeCall \/ FistCall]_vars

(* Calls with a swipe or none, of one or two fingers, on a clock that stands *)
(* still during a call, each call within MaxGap ticks of the one before    *)
SwipeWithFingersCall == Call({"swipe_left", "swipe_right"}, {1, 2}, 1..MaxGap, 0)
OneOrTwoCall == Call({"none"}, {1, 2}, 1..MaxGap, 0)

SpecAfterSwipe == Init /\ [][SwipeWithFingersCall \/ OneOrTwoCall]_vars

-----------------------------------------------------------------------------
(* The stability filter *)

(* C8: a call of the filter with count n reports n as stable iff n is the    *)
(* candidate the call found and stability_threshold or more has passed since *)
(* the candidate was set; otherwise it reports nothing, and a call with a    *)
(* count other than the candidate makes it the candidate, set at the call.   *)
FilterReportsHeldCandidate ==
    [][frame'.fed # NoCount =>
         LET n == frame'.fed
             same == n = ctl.stable_finger_count
             held == frame'.t_stable - ctl'.finger_count_start_time >= stability_threshold
         IN  /\ frame'.stable \in {n, NoCount}
             /\ (frame'.stable = n) <=> (same /\ held)
             /\ ~same => /\ ctl'.stable_finger_count = n
                         /\ ctl'.finger_count_start_time = frame'.t_stable
             /\ same => ctl'.stable_finger_count = n]_vars

(* A count is reported stable at the call that finds it held for exactly the threshold *)
FilterReportsAtThreshold ==
    /\ frame.fed # NoCount
    /\ frame.stable = frame.fed
    /\ frame.t_stable - ctl.finger_count_start_time = stability_threshold

-----------------------------------------------------------------------------
(* Commands per frame *)

(* C1: during one frame at most one backend command is issued *)
AtMostOneCommandPerFrame == Len(out) <= 1

(* A frame issued a track skip while one stable finger was up, play/pause    *)
(* was armed and out of its own cooldown                                     *)
SwipeWinsOverToggle ==
    /\ Names(out) \cap SwipeCmds # {}
    /\ frame.stable = 1
    /\ ctl.play_pause_armed
    /\ Now - ctl.last_play_pause_time >= play_pause_cooldown

-----------------------------------------------------------------------------
(* Cooldowns of the frame loop *)

IssuedSingleHand == Names(out) \cap SingleHandCmds # {}

(* C2: once a frame has ended scrub mode, whatever hands it saw, no          *)
(* single-hand command is issued on a frame less than post_scrub_cooldown    *)
(* after the latest such frame                                               *)
NoSingleHandCommandSoonAfterScrub ==
    (log.exited /\ IssuedSingleHand) => frame.t - log.exit_at >= post_scrub_cooldown

(* C3: once hands have shown after a frame without hands, no command is      *)
(* issued on a frame less than hand_appearance_cooldown after the latest     *)
(* such frame, and that frame empties the position history before it works   *)
(* on the hands                                                              *)
NoCommandSoonAfterAppearance ==
    /\ (log.appeared /\ out # <<>>) => frame.t - log.appear_at >= hand_appearance_cooldown
    /\ frame.appeared =>
          tracker.position_history \in
              {<<>>} \cup {<<<<h.wrist_x, h.wrist_y>>>> :
                            h \in {loop.last_hand_landmarks[i] :
                                     i \in 1..Len(loop.last_hand_landmarks)}}

-----------------------------------------------------------------------------
(* Finger-count actions *)

VolumeIssued(delta) == \E i \in 1..Len(out) : out[i].cmd = "adjust_volume" /\ out[i].arg = delta

(* C4: with no swipe, a call that finds 3 stable volume_cooldown or more      *)
(* after a +10, the stable count having been 2 or 3 on every report since,   *)
(* issues -10 (so that +10 is not the latest volume command once the call    *)
(* has ended); and a volume command never has the direction of the one       *)
(* before while the stable count has been 2 or 3 on every report between     *)
VolumeFollowsCountWithinTwoAndThree ==
    /\ ~ (/\ frame.stable = 3
          /\ log.volumed /\ log.volume_dir = "up" /\ log.kept
          /\ ~log.swiped
          /\ frame.t_handle - log.volume_at >= volume_cooldown)
    /\ \A i \in 1..Len(out) :
          (out[i].cmd = "adjust_volume" /\ frame.before.had /\ frame.before.kept)
             => CmdDir(out[i]) # frame.before.dir

ToggleIssued == "play_pause" \in Names(out)

(* C5: a play_pause command that is not the first comes after a report, by   *)
(* the filter, of a stable count other than 1, play_pause_cooldown or more   *)
(* after the play_pause before it; and when the stable counts reported from  *)
(* start-up on are those of Script, each play_pause_cooldown or more after   *)
(* the one before and with no swipe, play_pause is issued on the first and   *)
(* on the sixth and on no other: twice in all                                *)
ToggleOncePerStreak ==
    /\ (ToggleIssued /\ frame.before.had) => frame.before.rearmed
    /\ ToggleIssued => frame.stable = 1
    /\ (log.script_pos > 0 /\ frame.stable # NoCount) =>
          (ToggleIssued <=> log.script_pos \in {1, 6})

(* The calls have reported all of Script *)
ScriptCompleted == log.script_pos = Len(Script) /\ frame.stable = 1

-----------------------------------------------------------------------------
(* Swipes *)

SwipeIssued == Names(out) \cap SwipeCmds # {}

(* C6: a track skip that follows another in the same direction comes         *)
(* swipe_same_direction_cooldown or more after it, one in the other          *)
(* direction swipe_opposite_direction_cooldown or more after it; and, with a *)
(* backend, a call with a swipe when no track skip has been issued issues    *)
(* the skip                                                                  *)
SwipesKeepTheirDistance ==
    /\ \A i \in 1..Len(out) :
          (out[i].cmd \in SwipeCmds /\ frame.before.had) =>
             /\ CmdDir(out[i]) = frame.before.dir =>
                   out[i].at - frame.before.at >= swipe_same_direction_cooldown
             /\ CmdDir(out[i]) # frame.before.dir =>
                   out[i].at - frame.before.at >= swipe_opposite_direction_cooldown
    /\ (ctl.spotify_enabled /\ frame.gesture \in {"swipe_left", "swipe_right"} /\ ~SwipeIssued)
          => log.swiped

(* A track skip follows one in the same direction as early as the code allows *)
SecondSwipeSameDirection ==
    /\ SwipeIssued /\ frame.before.had
    /\ CmdDir(out[1]) = frame.before.dir
    /\ out[1].at - frame.before.at = swipe_same_direction_cooldown + 1

(* C7: a play_pause or adjust_volume command is issued neither in the call   *)
(* that issues a track skip nor less than swipe_to_other_action_cooldown     *)
(* after the latest track skip, whatever the armed flags were                *)
NoFingerCommandSoonAfterSwipe ==
    \A i \in 1..Len(out) :
       out[i].cmd \in {"play_pause", "adjust_volume"} =>
          /\ ~SwipeIssued
          /\ log.swiped => out[i].at - log.swipe_at >= swipe_to_other_action_cooldown

(* adjust_volume is issued at the moment the cooldown after a track skip ends *)
VolumeWhenSwipeCooldownEnds ==
    /\ out # <<>> /\ out[1].cmd = "adjust_volume"
    /\ log.swiped
    /\ out[1].at - log.swipe_at = swipe_to_other_action_cooldown

-----------------------------------------------------------------------------
(* Scrubbing *)

SeekIssued == "seek_position" \in Names(out)

Displacement == frame.control_x - log.origin_x

(* C9: seek_position is issued only on a frame that began in scrub mode,     *)
(* with the control wrist more than min_scrub_ms / ms_per_pixel = 2 pixels   *)
(* from where it was when scrub mode began, and scrub_interval or more after *)
(* the seek_position before it; and a frame that began in scrub mode with    *)
(* the wrist 3 pixels or more away, a known track and origin progress, and   *)
(* more than scrub_interval after the latest seek_position, issues one       *)
SeekOnlyWhenDue ==
    /\ \A i \in 1..Len(out) :
          out[i].cmd = "seek_position" =>
             /\ frame.was_scrubbing
             /\ Abs(Displacement * ms_per_pixel) > min_scrub_ms
             /\ Abs(Displacement) > 2
             /\ frame.before.had => out[i].at - frame.before.at >= scrub_interval
    /\ (/\ frame.mode = "scrub" /\ frame.was_scrubbing
        /\ Abs(Displacement) >= 3
        /\ ctl.scrub_start_progress # NoProgress /\ ctl.cached_track_info.ok
        /\ ~SeekIssued)
          => (log.seeked /\ frame.t - log.seek_at <= scrub_interval)

(* A seek with the wrist 3 pixels away, as soon after the one before as the code allows *)
SeekAtThreePixelsAndEarliest ==
    /\ SeekIssued /\ frame.before.had
    /\ Abs(Displacement) = 3
    /\ out[1].at - frame.before.at = scrub_interval + 1

(* C10 as stated: every seek_position target lies in [0, duration_ms - end_margin_ms] *)
SeekTargetBelowEndMargin ==
    \A i \in 1..Len(out) :
       out[i].cmd = "seek_position" =>
          /\ 0 <= out[i].arg
          /\ out[i].arg <= ctl.cached_track_info.duration_ms - end_margin_ms

(* C10: every seek_position target lies in                                   *)
(* [0, max(0, duration_ms - end_margin_ms)], duration_ms being the duration  *)
(* the backend reported of the track                                         *)
SeekTargetWithinTrack ==
    \A i \in 1..Len(out) :
       out[i].cmd = "seek_position" =>
          /\ ctl.cached_track_info.ok
          /\ 0 <= out[i].arg
          /\ out[i].arg <= Max(0, ctl.cached_track_info.duration_ms - end_margin_ms)

(* A seek in a track shorter than the end margin *)
SeekInShortTrack ==
    /\ SeekIssued
    /\ ctl.cached_track_info.ok
    /\ ctl.cached_track_info.duration_ms < end_margin_ms
    /\ out[1].arg = 0

-----------------------------------------------------------------------------
(* Two hands out of the scrub pose; no backend *)

(* C11: a frame with two hands that are not in the scrub pose issues no      *)
(* command, and calls the arbitration with no gesture and finger count 0     *)
(* (the filter is fed 0, or not called at all without a backend)             *)
BlockedFrameIssuesNothing ==
    frame.mode = "blocked" =>
       /\ out = <<>>
       /\ frame.gesture = "none"
       /\ frame.fed = IF ctl.spotify_enabled THEN 0 ELSE NoCount
       /\ frame.stable \in {0, NoCount}

(* The arbitration of a blocked frame found 0 stable while play/pause was    *)
(* disarmed and its cooldown over, and armed it again                        *)
BlockedFrameRearms ==
    /\ frame.mode = "blocked"
    /\ frame.stable = 0
    /\ log.toggled /\ log.rearmed
    /\ ctl.play_pause_armed

(* C12: without a backend the loop never stops on an error and never issues  *)
(* a command, whatever the frames                                            *)
DisplayOnlyKeepsRunning ==
    ~ctl.spotify_enabled => (~loop.crashed /\ out = <<>>)

-----------------------------------------------------------------------------
(* A backend whose calls may fail *)

(* A backend method without its try/except: a failure leaves as an exception *)
backend_call_unguarded(cmd, works) == [raised |-> ~works, done |-> works]

(* spotify_controller.py 22-72: every method wraps its Spotify calls in      *)
(* try/except Exception and returns None; works is whether the calls succeed *)
backend_call(cmd, works) == [raised |-> FALSE, done |-> works]

(* The step r when its backend calls work or fail.  Neither handle_gestures  *)
(* nor run() has a handler: an exception out of a backend method would leave *)
(* the statements after the call undone and end run().  c is the controller  *)
(* before the step.                                                          *)
after_backend(r, c, works) ==
    IF \E i \in 1..Len(r.out) : backend_call(r.out[i], works).raised
    THEN [r EXCEPT !.c = c, !.lp.crashed = TRUE]
    ELSE r

(* The commands of the step r, each with whether the backend carried it out *)
Outcome(r, works) ==
    [r EXCEPT !.out = [i \in 1..Len(r.out) |->
                         [cmd |-> r.out[i].cmd, arg |-> r.out[i].arg, at |-> r.out[i].at,
                          done |-> backend_call(r.out[i], works).done]]]

(* Whether the backend calls of the step r work: a choice only if it makes any *)
Works(r) == IF r.out = <<>> THEN {TRUE} ELSE BOOLEAN

LongGap == swipe_opposite_direction_cooldown + 1

FlakyCalls ==
    {<<"none", 1>>, <<"none", 2>>, <<"none", 3>>, <<"swipe_left", 0>>, <<"swipe_right", 0>>}

FlakyObs == {<<Hand(4, FALSE, 300, 200), Hand(1, TRUE, x, 200)>> : x \in {100, 103}}

(* handle_gestures on its own with such a backend, long after the step before *)
FlakyCall ==
    /\ ~loop.crashed
    /\ \E call \in FlakyCalls :
       \E T \in {Samples(Now + LongGap, 6, 0)} :
       \E r0 \in {call_handle_gestures(ctl, call[1], call[2], T)} :
       \E works \in Works(r0) :
          Becomes(Outcome(after_backend(r0, ctl, works), works), T[6])

(* A frame of the loop before a user who scrubs, with such a backend *)
FlakyFrame ==
    /\ ~loop.crashed
    /\ \E det \in DetectorAnswers(loop, FlakyObs) :
       \E T \in {Samples(Now + LongGap, 6, 0)} :
       \E info \in BackendAnswers(ctl, T[6]) :
       \E r0 \in {run_frame(ctl, tracker, loop, det, T, info)} :
       \E works \in Works(r0) :
          Becomes(Outcome(after_backend(r0, ctl, works), works), T[6])

SpecFlaky == Init /\ [][FlakyCall \/ FlakyFrame]_vars

(* What handle_gestures and the scrub branch record about the command c *)
Stamped(c) ==
    IF Kind(c.cmd) = "swipe"
    THEN ctl.last_swipe_time = c.at /\ ctl.last_swipe_direction = CmdDir(c)
    ELSE IF Kind(c.cmd) = "toggle"
    THEN ctl.last_play_pause_time = c.at /\ ~ctl.play_pause_armed
    ELSE IF Kind(c.cmd) = "volume"
    THEN /\ ctl.last_volume_time = c.at /\ ~ctl.volume_gesture_armed
         /\ ctl.last_volume_gesture = CmdDir(c)
    ELSE ctl.last_scrub_time = c.at

(* C13: a step that calls the backend (previous_track, next_track,           *)
(* play_pause, adjust_volume or seek_position) leaves the loop running and   *)
(* the time, direction and armed flag of the command recorded as of its      *)
(* issuance, whether the call worked or failed                               *)
BackendFailureStaysInBackend ==
    \A i \in 1..Len(out) : ~loop.crashed /\ Stamped(out[i])

(* Witness of C13: a seek_position that failed, recorded all the same *)
FailedCommandRecorded ==
    /\ out # <<>> /\ ~out[1].done /\ Stamped(out[1]) /\ ~loop.crashed
    /\ out[1].cmd = "seek_position"

-----------------------------------------------------------------------------
(* detect_swipe on its own *)

(* Wrist positions: columns around horizontal_threshold and rows around      *)
(* vertical_threshold away from <<100, 200>>                                  *)
Columns == {100, 100 + horizontal_threshold, 101 + horizontal_threshold, 260}
Rows == {200, 199 + vertical_threshold, 200 + vertical_threshold}
Positions == {<<x, y>> : x \in Columns, y \in Rows}

(* A history of n entries that moves evenly from first to last *)
HistoryFromTo(n, first, last) ==
    [i \in 1..n |-> <<first[1] + ((last[1] - first[1]) * (i - 1)) \div (n - 1),
                      first[2] + ((last[2] - first[2]) * (i - 1)) \div (n - 1)>>]

Histories ==
    {HistoryFromTo(n, first, last) :
        n \in {min_history - 1, min_history, history_maxlen},
        first \in Positions, last \in Positions}

(* The tracker holds any of the histories and nothing has been called *)
InitDetect ==
    /\ ctl = RebaseCtl(InitCtl(TRUE), Now)
    /\ tracker \in {[RebaseTracker(InitTracker, Now) EXCEPT !.position_history = h] :
                       h \in Histories}
    /\ loop = InitLoop
    /\ out = <<>>
    /\ frame = NoFrame
    /\ log = RebaseLog(InitLog, Now)
    /\ probe = NoProbe

(* hand_tracker.py 118-144: one call of detect_swipe on the history held *)
DetectSwipeCall ==
    /\ probe.fn = "none"
    /\ \E r \in {detect_swipe(tracker.position_history)} :
          /\ tracker' = [tracker EXCEPT !.position_history = r.history]
          /\ probe' = [fn |-> "detect_swipe", arg |-> tracker.position_history,
                       ret |-> r.ret]
    /\ UNCHANGED <<ctl, loop, out, frame, log>>

SpecDetect == InitDetect /\ [][DetectSwipeCall]_vars

Oldest(h) == h[1]
Newest(h) == h[Len(h)]
Dx(h) == Newest(h)[1] - Oldest(h)[1]
Dy(h) == Abs(Newest(h)[2] - Oldest(h)[2])

(* C14: detect_swipe returns a direction exactly when the history holds      *)
(* min_history entries or more and, from the oldest to the newest, |dx| >    *)
(* horizontal_threshold, dy < vertical_threshold and |dx| > 1.5 dy; the      *)
(* direction is right when dx > 0 and left otherwise; a history of           *)
(* history_maxlen entries from x = 100 to x = 260 with dy < vertical_        *)
(* threshold gives right, its mirror image left, and the same dx with dy >=  *)
(* vertical_threshold gives nothing                                          *)
DetectSwipeClassifies ==
    probe.fn = "detect_swipe" =>
       LET h == probe.arg
           swipes == /\ Len(h) >= min_history
                     /\ Abs(Dx(h)) > horizontal_threshold
                     /\ Dy(h) < vertical_threshold
                     /\ 2 * Abs(Dx(h)) > 3 * Dy(h)
       IN  /\ (probe.ret # "none") <=> swipes
           /\ swipes => probe.ret = (IF Dx(h) > 0 THEN "swipe_right" ELSE "swipe_left")
           /\ (/\ Len(h) = history_maxlen /\ Oldest(h)[1] = 100 /\ Newest(h)[1] = 260
               /\ Dy(h) < vertical_threshold) => probe.ret = "swipe_right"
           /\ (/\ Len(h) = history_maxlen /\ Oldest(h)[1] = 260 /\ Newest(h)[1] = 100
               /\ Dy(h) < vertical_threshold) => probe.ret = "swipe_left"
           /\ (Abs(Dx(h)) = 160 /\ Dy(h) >= vertical_threshold) => probe.ret = "none"

(* Witness of C14: the history of the example, classified as right *)
DetectSwipeExample ==
    /\ probe.fn = "detect_swipe" /\ probe.ret = "swipe_right"
    /\ Len(probe.arg) = history_maxlen
    /\ Oldest(probe.arg) = <<100, 200>> /\ Newest(probe.arg)[1] = 260
    /\ tracker.position_history = <<>>

MaxOffset == 200
Offsets == (0 - MaxOffset)..MaxOffset

(* The history h with k added to every wrist x *)
ShiftedBy(h, k) == [i \in 1..Len(h) |-> <<h[i][1] + k, h[i][2]>>]

(* C15: for every history and every offset k, detect_swipe returns on the    *)
(* history with k added to every wrist x what it returns on the history,     *)
(* and empties the one exactly when it empties the other                     *)
DetectSwipeIgnoresShift ==
    probe.fn = "detect_swipe" =>
       \A k \in Offsets :
          LET r == detect_swipe(ShiftedBy(probe.arg, k))
          IN  /\ r.ret = probe.ret
              /\ (r.history = <<>>) <=> (tracker.position_history = <<>>)

(* Witness of C15: a left swipe that is still one when shifted right by      *)
(* MaxOffset, where its newest wrist is right of where its oldest was        *)
ShiftedSwipeStillLeft ==
    /\ probe.fn = "detect_swipe" /\ probe.ret = "swipe_left"
    /\ detect_swipe(ShiftedBy(probe.arg, MaxOffset)).ret = "swipe_left"
    /\ Newest(probe.arg)[1] + MaxOffset > Oldest(probe.arg)[1]

-----------------------------------------------------------------------------
(* The loop on a machine whose clock advances while a frame is processed,    *)
(* before a user who shows one finger or takes the hand away                 *)

OneFingerObs == {<<>>, <<Hand(1, FALSE, 100, 200)>>}

DriftingAwayFrame == Frame("idle", OneFingerObs, FrameGaps, MaxDrift)
DriftingHandFrame == Frame("single", OneFingerObs, FrameGaps, MaxDrift)

SpecClock == Init /\ [][DriftingAwayFrame \/ DriftingHandFrame]_vars

(* C16: the clock is read once in a frame: what run() read at its top        *)
(* (main.py 176) is what the stability filter (main.py 57) and the cooldown  *)
(* comparisons of handle_gestures (main.py 74) use, on every frame of a      *)
(* loop with a backend                                                       *)
OneClockSamplePerFrame ==
    (ctl.spotify_enabled /\ frame.mode \in {"idle", "single"}) =>
       (frame.t_stable = frame.t /\ frame.t_handle = frame.t)

-----------------------------------------------------------------------------
ScrubInactive ==
    /\ ~ctl.scrubbing_active
    /\ ctl.scrub_start_x = NoPos
    /\ ctl.scrub_start_progress = NoProgress

(* C17 as stated: when a frame with no hands ends, the position history is   *)
(* empty and scrub is inactive                                               *)
IdleFrameEmptiesHistory ==
    frame.mode = "idle" => (tracker.position_history = <<>> /\ ScrubInactive)

(* C17: when a frame with no hands ends, scrub is inactive (flag false,      *)
(* origin position and origin progress cleared) and no hand counts as        *)
(* visible; the position history is left as it was, and the next frame with  *)
(* a hand empties it before appending, so that it then holds one entry at    *)
(* most                                                                      *)
IdleFrameCancelsScrub ==
    /\ frame.mode = "idle" => (ScrubInactive /\ ~ctl.hand_was_visible)
    /\ frame.appeared => Len(tracker.position_history) <= 1

(* Witness of C17: a frame with no hands that ended scrub mode, with         *)
(* positions still in the history                                            *)
IdleFrameAfterScrubKeepsHistory ==
    /\ frame.mode = "idle" /\ frame.was_scrubbing
    /\ ScrubInactive
    /\ tracker.position_history # <<>>

-----------------------------------------------------------------------------
(* The loop before a user who keeps a fist in view and moves it between two  *)
(* places; only the first frame, which does not ask the pose estimator, sees *)
(* no hand                                                                   *)

FistObs == {<<Hand(0, FALSE, x, 200)>> : x \in {100, 260}}

FirstFrame == Frame("idle", FistObs, FrameGaps, 0)
FistFrame == Frame("single", FistObs, FrameGaps, 0)

SpecFist == Init /\ [][FirstFrame \/ FistFrame]_vars

(* C18: on a single-hand frame, a detect_swipe that returns a direction      *)
(* leaves the position history empty, and was called on min_history entries  *)
(* or more, the frame's own among them, so that min_history appends lie      *)
(* between two classifications; one that returns none leaves the history as  *)
(* it was called on: what the frame began with (nothing, if the hand has     *)
(* just appeared) and the frame's position appended                          *)
ClassificationEmptiesHistory ==
    [][frame'.mode = "single" =>
          LET base == IF frame'.appeared THEN <<>> ELSE tracker.position_history
              after == tracker'.position_history
          IN  IF frame'.swipe # "none"
              THEN after = <<>> /\ Len(base) + 1 >= min_history
              ELSE after # <<>> /\ after = history_append(base, after[Len(after)])]_vars

(* Witness of C18: a swipe classified and handed on less than                *)
(* swipe_opposite_direction_cooldown after a track skip in the other         *)
(* direction, so that no command is issued; the history is empty all the     *)
(* same                                                                      *)
SwipeInCooldownEmptiesHistory ==
    /\ frame.mode = "single" /\ frame.swipe # "none" /\ frame.gesture = frame.swipe
    /\ out = <<>> /\ ctl.spotify_enabled
    /\ log.swiped /\ Now - log.swipe_at < swipe_opposite_direction_cooldown
    /\ tracker.position_history = <<>>

-----------------------------------------------------------------------------
(* The loop before a user who moves a fist between two places, pinching or   *)
(* not                                                                       *)

PinchingFistObs == {<<Hand(0, p, x, 200)>> : p \in BOOLEAN, x \in {100, 260}}

BeforeFistFrame == Frame("idle", PinchingFistObs, FrameGaps, 0)
PinchingFistFrame == Frame("single", PinchingFistObs, FrameGaps, 0)

SpecPinch == Init /\ [][BeforeFistFrame \/ PinchingFistFrame]_vars

(* The hands of det, none of them pinching *)
Unpinched(det) == [i \in 1..Len(det) |-> [det[i] EXCEPT !.is_pinching = FALSE]]

(* C19: in single-hand mode, whatever the state before a frame, the frame    *)
(* issues the same commands and leaves the same arbitration state whether    *)
(* the hand is pinching or not                                               *)
PinchIsObservational ==
    ~loop.crashed =>
       \A gap \in FrameGaps, det \in DetectorAnswers(loop, PinchingFistObs) :
          LET T == Samples(Now + gap, 6, 0)
              pinching == run_frame(ctl, tracker, loop, det, T, NoInfo)
              open == run_frame(ctl, tracker, loop, Unpinched(det), T, NoInfo)
          IN  pinching.fr.mode = "single" =>
                 (pinching.out = open.out /\ pinching.c = open.c)

-----------------------------------------------------------------------------
(* The role assignment of run() on its own *)

PosedHands ==
    {Hand(fc, p, x, 200) : fc \in {3, 4, 5}, p \in BOOLEAN, x \in {100, 300}}

HandLists ==
    {<<>>} \cup {<<h>> : h \in PosedHands} \cup {<<g, h>> : g \in PosedHands, h \in PosedHands}

(* The pose estimator has returned any of the lists and no roles are assigned *)
InitRoles ==
    /\ ctl = RebaseCtl(InitCtl(TRUE), Now)
    /\ tracker = RebaseTracker(InitTracker, Now)
    /\ loop \in {[InitLoop EXCEPT !.last_hand_landmarks = hands] : hands \in HandLists}
    /\ out = <<>>
    /\ frame = NoFrame
    /\ log = RebaseLog(InitLog, Now)
    /\ probe = NoProbe

(* main.py 231-241: the roles of the hands the loop holds *)
AssignRoles ==
    /\ probe.fn = "none"
    /\ probe' = [fn |-> "scrub_roles", arg |-> loop.last_hand_landmarks,
                 ret |-> scrub_roles(loop.last_hand_landmarks)]
    /\ UNCHANGED <<ctl, tracker, loop, out, frame, log>>

SpecRoles == InitRoles /\ [][AssignRoles]_vars

(* C20: the frame is a scrub frame exactly when it has two hands and (hand1  *)
(* has 4 fingers or more up and hand2 pinches) or (hand2 has 4 or more up    *)
(* and hand1 pinches); the control hand is the pinching hand of the          *)
(* assignment that matches, the first assignment when both match; with no    *)
(* hand or one hand it is never a scrub frame                                *)
RolesFollowPose ==
    probe.fn = "scrub_roles" =>
       LET hands == probe.arg
           roles == probe.ret
           first == Len(hands) = 2 /\ hands[1].finger_count >= 4 /\ hands[2].is_pinching
           second == Len(hands) = 2 /\ hands[2].finger_count >= 4 /\ hands[1].is_pinching
       IN  /\ (roles.control # 0) <=> (first \/ second)
           /\ (roles.trigger # 0) <=> (roles.control # 0)
           /\ first => roles = [trigger |-> 1, control |-> 2]
           /\ (second /\ ~first) => roles = [trigger |-> 2, control |-> 1]
           /\ roles.control # 0 =>
                 /\ hands[roles.control].is_pinching
                 /\ hands[roles.trigger].finger_count >= 4
           /\ Len(hands) < 2 => roles.control = 0

(* Witness of C20: both hands pinch with 4 fingers or more up, and the       *)
(* second is the control hand                                                *)
BothAssignmentsMatch ==
    /\ probe.fn = "scrub_roles" /\ Len(probe.arg) = 2
    /\ \A i \in 1..2 : probe.arg[i].finger_count >= 4 /\ probe.arg[i].is_pinching
    /\ probe.ret = [trigger |-> 1, control |-> 2]

-----------------------------------------------------------------------------
(* The hands the latest frame worked on were in the scrub pose *)
FrameInScrubPose == scrub_roles(loop.last_hand_landmarks).control # 0

(* C21: when a frame has ended, scrubbing_active is true exactly when the    *)
(* frame's hands were two hands in the scrub pose, scrub_start_x is set      *)
(* exactly when scrubbing_active is true, and scrub is not active with fewer *)
(* than two hands                                                            *)
ScrubActiveIffScrubPose ==
    (frame.mode # "none" /\ ~loop.crashed) =>
       /\ ctl.scrubbing_active <=> FrameInScrubPose
       /\ (ctl.scrub_start_x # NoPos) <=> ctl.scrubbing_active
       /\ ctl.scrubbing_active => Len(loop.last_hand_landmarks) = 2

(* Witness of C21: a frame that ended scrub mode with two hands still in     *)
(* view, out of the scrub pose                                               *)
ScrubEndedWithTwoHands ==
    /\ frame.mode = "blocked" /\ frame.was_scrubbing /\ ~loop.crashed
    /\ ~ctl.scrubbing_active /\ ctl.scrub_start_x = NoPos

-----------------------------------------------------------------------------
(* C22: while volume_gesture_armed is true last_volume_gesture is None, so   *)
(* that the test of the direction never holds back an armed gesture; and an  *)
(* adjust_volume that is not the first, of either direction, comes after a   *)
(* report, by the filter, of a stable count other than 2 and 3,              *)
(* volume_cooldown or more after the adjust_volume before it                 *)
ArmedVolumeHasNoDirection ==
    /\ ctl.volume_gesture_armed => ctl.last_volume_gesture = "none"
    /\ \A i \in 1..Len(out) :
          (out[i].cmd = "adjust_volume" /\ frame.before.had) => frame.before.released
    /\ (log.volumed /\ ~log.released) => ~ctl.volume_gesture_armed

(* Witness of C22: an adjust_volume in the direction of the one before it,   *)
(* after a stable count other than 2 and 3                                   *)
VolumeAgainAfterRelease ==
    /\ out # <<>> /\ out[1].cmd = "adjust_volume"
    /\ frame.before.had /\ frame.before.released
    /\ frame.before.dir = CmdDir(out[1])

-----------------------------------------------------------------------------
(* C23: a frame that enters scrub mode while the cache holds no track leaves *)
(* scrub_start_progress unset; and a frame in scrub mode of a session whose  *)
(* scrub_start_progress is unset leaves it unset and issues no               *)
(* seek_position, wherever the control wrist is and whatever the cache holds *)
(* by then                                                                   *)
NoSeekWithoutOriginProgress ==
    [][frame'.mode = "scrub" /\ ~loop'.crashed =>
          /\ (~ctl.scrubbing_active /\ ~ctl'.cached_track_info.ok) =>
                (ctl'.scrub_start_progress = NoProgress /\ out' = <<>>)
          /\ (ctl.scrubbing_active /\ ctl.scrub_start_progress = NoProgress) =>
                (ctl'.scrub_start_progress = NoProgress /\ out' = <<>>)]_vars

(* Witness of C23: in a session that began without a track, the cache holds  *)
(* a track, the control wrist is 3 pixels from where it was, and no          *)
(* seek_position is issued                                                   *)
NoSeekThoughTrackKnownNow ==
    /\ frame.mode = "scrub" /\ frame.was_scrubbing
    /\ ctl.scrub_start_progress = NoProgress
    /\ ctl.cached_track_info.ok
    /\ Abs(Displacement) >= 3
    /\ out = <<>>

-----------------------------------------------------------------------------
(* The loop on a camera so fast that a frame can begin within the tick in    *)
(* which the one before ended, before a user who moves a fist between two    *)
(* places                                                                     *)

QuickGaps == {0, FramePeriod}

StartFrame == Frame("idle", FistObs, QuickGaps, 0)
QuickFistFrame == Frame("single", FistObs, QuickGaps, 0)

SpecQuick == Init /\ [][StartFrame \/ QuickFistFrame]_vars

(* C24: a track skip is issued more than cooldown_seconds after the latest   *)
(* frame before it on which a classified swipe passed the gate of the frame  *)
(* and mark_gesture_triggered was called, whether or not that frame issued a *)
(* command                                                                   *)
NoSkipSoonAfterMark ==
    \A i \in 1..Len(out) :
       out[i].cmd \in SwipeCmds => out[i].at - frame.gate_at > cooldown_seconds

(* Witness of C24: a classified swipe held back by the gate, cooldown_seconds *)
(* or less after a mark of a swipe that issued no command                    *)
SwipeHeldBackAfterSilentMark ==
    /\ frame.mode = "single" /\ frame.swipe # "none" /\ frame.gesture = "none"
    /\ ctl.spotify_enabled /\ out = <<>>
    /\ frame.t - ctl.hand_first_seen_time >= hand_appearance_cooldown
    /\ frame.t - tracker.last_gesture_time <= cooldown_seconds
    /\ log.swiped /\ log.swipe_at < tracker.last_gesture_time

-----------------------------------------------------------------------------
(* The loop before a user who shows one finger or two, takes the hand away,  *)
(* or holds up a second hand, in the scrub pose or out of it                 *)

InterruptedObs ==
    {<<>>, <<Hand(1, FALSE, 100, 200)>>, <<Hand(2, FALSE, 100, 200)>>,
     <<Hand(1, FALSE, 100, 200), Hand(2, FALSE, 300, 200)>>,
     <<Hand(4, FALSE, 300, 200), Hand(1, TRUE, 100, 200)>>}

NoHandFrame == Frame("idle", InterruptedObs, FrameGaps, 0)
FingersFrame == Frame("single", InterruptedObs, FrameGaps, 0)
SecondHandFrame == Frame("blocked", InterruptedObs, FrameGaps, 0)
ScrubPoseFrame == Frame("scrub", InterruptedObs, FrameGaps, 0)

SpecInterrupted ==
    Init /\ [][NoHandFrame \/ FingersFrame \/ SecondHandFrame \/ ScrubPoseFrame]_vars

(* main.py 289-290, of the frame that has ended *)
FrameInCooldown ==
    \/ frame.t - ctl.scrub_end_time < post_scrub_cooldown
    \/ frame.t - ctl.hand_first_seen_time < hand_appearance_cooldown

(* C25: with a backend, the stability filter is fed 0 on a frame with no     *)
(* hand, on a frame with two hands out of the scrub pose and on a            *)
(* single-hand frame inside the appearance or post-scrub cooldown; 0 held    *)
(* for stability_threshold or more is reported as the stable count; and a    *)
(* stable 0 reported play_pause_cooldown (volume_cooldown) or more after the *)
(* latest play_pause (adjust_volume) leaves that action armed                *)
InterruptionRearms ==
    /\ (/\ ctl.spotify_enabled /\ ~loop.crashed
        /\ \/ frame.mode \in {"idle", "blocked"}
           \/ frame.mode = "single" /\ FrameInCooldown) => frame.fed = 0
    /\ (/\ frame.fed = 0
        /\ frame.t_stable - ctl.finger_count_start_time >= stability_threshold)
          => frame.stable = 0
    /\ (/\ frame.stable = 0 /\ log.toggled
        /\ frame.t_handle - log.toggle_at >= play_pause_cooldown)
          => ctl.play_pause_armed
    /\ (/\ frame.stable = 0 /\ log.volumed
        /\ frame.t_handle - log.volume_at >= volume_cooldown)
          => (ctl.volume_gesture_armed /\ ctl.last_volume_gesture = "none")

(* Witness of C25: a second play_pause from a hand that has shown one        *)
(* finger whenever a count of its own was reported: no adjust_volume was     *)
(* ever issued, so that the stable count that re-armed play_pause was the 0  *)
(* of an interruption                                                        *)
ToggleAgainAfterInterruption ==
    /\ ToggleIssued /\ frame.stable = 1
    /\ frame.before.had /\ frame.before.rearmed
    /\ ~log.volumed

-----------------------------------------------------------------------------
(* The frame that comes next does not ask the pose estimator (main.py 178) *)
DetectionSkippedNext == (loop.frame_count + 1) % process_every_n_frames # 0

(* C26: a frame that does not ask the pose estimator works on the hands of   *)
(* the frame before and, with a backend, calls the arbitration; in           *)
(* single-hand mode it appends the wrist position of those hands to the      *)
(* position history again and classifies the history so extended, so that    *)
(* the two newest entries of a history it leaves with two or more are the    *)
(* same observation                                                          *)
SkippedFrameReusesObservation ==
    [][DetectionSkippedNext =>
          /\ loop'.last_hand_landmarks = loop.last_hand_landmarks
          /\ (ctl.spotify_enabled /\ ~loop'.crashed) => frame'.fed # NoCount
          /\ frame'.mode = "single" =>
                LET hand == loop.last_hand_landmarks[1]
                    base == IF frame'.appeared THEN <<>> ELSE tracker.position_history
                    seen == history_append(base, <<hand.wrist_x, hand.wrist_y>>)
                    after == tracker'.position_history
                IN  /\ frame'.swipe = swipe_direction(seen)
                    /\ frame'.swipe = "none" => after = seen
                    /\ Len(after) >= 2 => after[Len(after)] = after[Len(after) - 1]]_vars

(* Witness of C26: after a frame that did not ask the pose estimator the     *)
(* history holds min_history entries, two for each of 4 observations, not    *)
(* all of them at the same place                                             *)
FourObservationsFillHistory ==
    /\ frame.mode = "single" /\ loop.frame_count = 1
    /\ Len(tracker.position_history) = min_history
    /\ \A i \in 1..4 : tracker.position_history[2 * i - 1] = tracker.position_history[2 * i]
    /\ tracker.position_history[3] # tracker.position_history[1]

====
